---- MODULE Spec2Model ----
(***************************************************************************)
(* RaceMind: the strategy engine (StrategyEngine.ts), the OpenF1 telemetry *)
(* client and calibrators (OpenF1.ts) and the prediction request handler   *)
(* of the strategy screen (App.tsx, onPredict).                            *)
(*                                                                         *)
(* Numbers.  Times are exact integers in milliseconds (92 s = 92000),      *)
(* degradation rates in milliseconds per lap (0.13 s/lap = 130) and the    *)
(* fuel penalty 0.015 s/lap = 15.  Every product the cost model halves is  *)
(* even, so the closed forms are exact.  formatSeconds takes its argument  *)
(* in ticks of 1/10000 s so that a truncation below the millisecond is     *)
(* visible.  Strings are sequences of one-character strings.               *)
(***************************************************************************)
EXTENDS Integers, Sequences, FiniteSets, TLC

(***************************************************************************)
(* Bounds of the model.                                                    *)
(***************************************************************************)
MaxLaps == 6
MaxMinutes == 2
MaxCalls == 2

(***************************************************************************)
(* Optional values: null is the empty set, a value v is {v}.               *)
(***************************************************************************)
Null == {}
Some(v) == {v}
Get(o) == CHOOSE v \in o : TRUE

Range(s) == {s[i] : i \in DOMAIN s}
Max2(a, b) == IF a >= b THEN a ELSE b
Min2(a, b) == IF a <= b THEN a ELSE b

(***************************************************************************)
(* String(n) of a JavaScript integer: decimal digits, "-" when negative.   *)
(***************************************************************************)
DigitChars == <<"0", "1", "2", "3", "4", "5", "6", "7", "8", "9">>

RECURSIVE Digits(_)
Digits(n) ==
  IF n < 10 THEN <<DigitChars[n + 1]>>
  ELSE Digits(n \div 10) \o <<DigitChars[(n % 10) + 1]>>

String(n) == IF n < 0 THEN <<"-">> \o Digits(-n) ELSE Digits(n)

RECURSIVE padStart(_, _, _)
padStart(s, width, ch) ==
  IF Len(s) >= width THEN s ELSE padStart(<<ch>> \o s, width, ch)

RECURSIVE join(_, _)
join(strs, sep) ==
  IF Len(strs) = 0 THEN <<>>
  ELSE IF Len(strs) = 1 THEN strs[1]
  ELSE strs[1] \o sep \o join(Tail(strs), sep)

TicksPerSecond == 10000

(***************************************************************************)
(* StrategyEngine.ts                                                       *)
(***************************************************************************)
tyresOrder == <<"SOFT", "MEDIUM", "HARD">>

fuelPenaltyPerLap == 15

\* Variant: the degradation term subtracted, as if worn tyres were faster.
computeStintTimeDegradationGain(baseLap, degPerLap, laps, fuel) ==
  LET degradationSum == (degPerLap * (laps * (laps + 1))) \div 2
      fuelSum == (fuel * (laps * (laps - 1))) \div 2
  IN  laps * baseLap - degradationSum + fuelSum

\* Variant: the degradation counted from 0 (lap i costs base + (i-1)*deg).
computeStintTimeFreshFirstLap(baseLap, degPerLap, laps, fuel) ==
  LET degradationSum == (degPerLap * (laps * (laps - 1))) \div 2
      fuelSum == (fuel * (laps * (laps - 1))) \div 2
  IN  laps * baseLap + degradationSum + fuelSum

\* Variant: the fuel term summed over laps*(laps+1) like the degradation.
computeStintTimeFuelAsDegradation(baseLap, degPerLap, laps, fuel) ==
  LET degradationSum == (degPerLap * (laps * (laps + 1))) \div 2
      fuelSum == (fuel * (laps * (laps + 1))) \div 2
  IN  laps * baseLap + degradationSum + fuelSum

computeStintTimeSeconds(baseLap, degPerLap, laps, fuel) ==
  LET degradationSum == (degPerLap * (laps * (laps + 1))) \div 2
      fuelSum == (fuel * (laps * (laps - 1))) \div 2
  IN  laps * baseLap + degradationSum + fuelSum

\* Variant: the two-compound rule dropped (unique.size >= 1).
RECURSIVE recurseAnyCompounds(_, _, _)
recurseAnyCompounds(idx, path, numStints) ==
  IF idx = numStints
  THEN IF Cardinality(Range(path)) >= 1 THEN <<path>> ELSE <<>>
  ELSE recurseAnyCompounds(idx + 1, Append(path, tyresOrder[1]), numStints)
       \o recurseAnyCompounds(idx + 1, Append(path, tyresOrder[2]), numStints)
       \o recurseAnyCompounds(idx + 1, Append(path, tyresOrder[3]), numStints)

\* recurse(idx, path): every path of numStints compounds, the first position
\* varying slowest, each compound tried in tyresOrder.
RECURSIVE recurse(_, _, _)
recurse(idx, path, numStints) ==
  IF idx = numStints
  THEN IF Cardinality(Range(path)) >= 2 THEN <<path>> ELSE <<>>
  ELSE recurse(idx + 1, Append(path, tyresOrder[1]), numStints)
       \o recurse(idx + 1, Append(path, tyresOrder[2]), numStints)
       \o recurse(idx + 1, Append(path, tyresOrder[3]), numStints)

\* Variant: assignments of a single compound are returned too.
assignCompoundsOfOneCompound(numStints) ==
  recurseAnyCompounds(0, <<>>, numStints)

assignCompounds(numStints) == recurse(0, <<>>, numStints)

\* compoundChoices.sort(comparator).  Array.prototype.sort is stable: an
\* element ends up after the elements the comparator puts before it and
\* after the equal elements that preceded it in the input.
sortComparator(a, b, len) == (len - 1) - (len - 1)

sortChoices(choices, len) ==
  LET before(j, i) ==
        \/ sortComparator(choices[j], choices[i], len) < 0
        \/ /\ sortComparator(choices[j], choices[i], len) = 0
           /\ j < i
      position == <<>> \o [i \in DOMAIN choices |->
                    1 + Cardinality({j \in DOMAIN choices : before(j, i)})]
  IN  <<>> \o [r \in DOMAIN choices |->
                 choices[CHOOSE i \in DOMAIN choices : position[i] = r]]

sortedCompoundsOf(len) ==
  LET compoundChoices == assignCompounds(len)
  IN  sortChoices(compoundChoices, len)

\* seq.join('-') of a lap-count sequence.
stintKey(seq) == join([i \in DOMAIN seq |-> String(seq[i])], <<"-">>)

RECURSIVE twoStintCandidates(_, _)
twoStintCandidates(totalLaps, delta) ==
  IF delta > 3 THEN <<>>
  ELSE LET a == Max2(1, (totalLaps \div 2) + delta)
           b == totalLaps - a
       IN  (IF b > 0 THEN << <<a, b>> >> ELSE <<>>)
           \o twoStintCandidates(totalLaps, delta + 1)

RECURSIVE threeStintInner(_, _, _)
threeStintInner(totalLaps, d1, d2) ==
  IF d2 > 3 THEN <<>>
  ELSE LET a == Max2(1, (totalLaps \div 3) + d1)
           b == Max2(1, (totalLaps \div 3) + d2)
           c == totalLaps - a - b
       IN  (IF c > 0 THEN << <<a, b, c>> >> ELSE <<>>)
           \o threeStintInner(totalLaps, d1, d2 + 1)

RECURSIVE threeStintCandidates(_, _)
threeStintCandidates(totalLaps, d1) ==
  IF d1 > 3 THEN <<>>
  ELSE threeStintInner(totalLaps, d1, -3)
       \o threeStintCandidates(totalLaps, d1 + 1)

fourStintCandidate(totalLaps) ==
  LET q == Max2(1, totalLaps \div 4)
  IN  <<q, q, q, totalLaps - 3 * q>>

\* uniq = new Map(); uniq.set(key, seq) for every candidate;
\* Array.from(uniq.values()).  A key keeps the position of its first
\* insertion and the value of its last one.
uniqValues(candidates, keys) ==
  LET indices == [i \in DOMAIN candidates |-> i]
      isFirst(i) == \A j \in 1..(i - 1) : keys[j] # keys[i]
      firsts == SelectSeq(indices, isFirst)
      lastOf(i) == CHOOSE j \in i..Len(candidates) :
                     /\ keys[j] = keys[i]
                     /\ \A k \in (j + 1)..Len(candidates) : keys[k] # keys[i]
  IN  <<>> \o [r \in DOMAIN firsts |-> candidates[lastOf(firsts[r])]]

generateCandidateStints(totalLaps) ==
  LET candidates == twoStintCandidates(totalLaps, -3)
                    \o threeStintCandidates(totalLaps, -3)
                    \o <<fourStintCandidate(totalLaps)>>
                    \o << <<totalLaps>> >>
      keys == <<>> \o [i \in DOMAIN candidates |-> stintKey(candidates[i])]
  IN  uniqValues(candidates, keys)

(***************************************************************************)
(* The search.  A plan is [stints, totalTimeSeconds, numStops]; the        *)
(* accumulator carries `best` (null before the first scored plan), the     *)
(* number of plans scored, one record per `break` taken and whether the    *)
(* current partition's loop has been left by `break`.                      *)
(***************************************************************************)
RECURSIVE stintTotal(_, _, _, _)
stintTotal(track, lapsPerStint, compounds, i) ==
  IF i > Len(lapsPerStint) THEN 0
  ELSE computeStintTimeSeconds(track.base_lap_time_seconds,
                               track.degradation_per_lap_seconds[compounds[i]],
                               lapsPerStint[i], fuelPenaltyPerLap)
       + stintTotal(track, lapsPerStint, compounds, i + 1)

scorePlan(track, lapsPerStint, compounds) ==
  LET numStops == Len(lapsPerStint) - 1
      total == stintTotal(track, lapsPerStint, compounds, 1)
               + numStops * track.pit_loss_seconds
  IN  [stints |-> [i \in DOMAIN compounds |->
                     [compound |-> compounds[i], laps |-> lapsPerStint[i]]],
       totalTimeSeconds |-> total,
       numStops |-> numStops]

\* Variant: the comparison reversed, the slower plan is kept.
replacesBestWhenSlower(plan, best) ==
  best = Null \/ plan.totalTimeSeconds > Get(best).totalTimeSeconds

\* Variant: a plan of equal total time replaces best too.
replacesBestOnTie(plan, best) ==
  best = Null \/ plan.totalTimeSeconds <= Get(best).totalTimeSeconds

replacesBest(plan, best) ==
  best = Null \/ plan.totalTimeSeconds < Get(best).totalTimeSeconds

\* Variant: the loop is left as soon as a plan with more stops than best
\* fails to replace it.
pruneAfterNoImprovement(plan, best) ==
  plan.numStops > Get(best).numStops /\ plan # Get(best)

\* Variant: the loop is left as soon as the plan has more stops than best.
pruneAfterAnyExtraStop(plan, best) == plan.numStops > Get(best).numStops

pruneAfter(plan, best) == plan.numStops > Get(best).numStops + 1

\* One iteration of the loop over sortedCompounds (lines 131-150).
scoreAssignment(track, lapsPerStint, sortedCompounds, k, acc) ==
  LET scoredPlan == scorePlan(track, lapsPerStint, sortedCompounds[k])
      newBest == IF replacesBest(scoredPlan, acc.best)
                 THEN Some(scoredPlan) ELSE acc.best
      scored == [acc EXCEPT !.best = newBest, !.nScored = @ + 1]
  IN  IF pruneAfter(scoredPlan, newBest)
      THEN [scored EXCEPT
              !.broken = TRUE,
              !.prunes = Append(@, [partition |-> lapsPerStint,
                                    bestStops |-> Get(newBest).numStops,
                                    skipped |-> Len(sortedCompounds) - k])]
      ELSE scored

\* Iterations lo..hi of the loop over sortedCompounds, in order; after a
\* `break` the remaining iterations are not run.  (The range is split in
\* halves only to keep the evaluation shallow.)
RECURSIVE assignmentLoop(_, _, _, _, _, _)
assignmentLoop(track, lapsPerStint, sortedCompounds, lo, hi, acc) ==
  IF lo > hi \/ acc.broken THEN acc
  ELSE IF lo = hi
  THEN scoreAssignment(track, lapsPerStint, sortedCompounds, lo, acc)
  ELSE LET mid == (lo + hi) \div 2
           firstHalf == assignmentLoop(track, lapsPerStint, sortedCompounds,
                                       lo, mid, acc)
       IN  IF firstHalf.broken THEN firstHalf
           ELSE assignmentLoop(track, lapsPerStint, sortedCompounds, mid + 1,
                               hi, firstHalf)

\* One iteration of the loop over partitions (lines 127-151).
scorePartition(track, lapsPerStint, acc) ==
  LET sortedCompounds == sortedCompoundsOf(Len(lapsPerStint))
  IN  assignmentLoop(track, lapsPerStint, sortedCompounds, 1,
                     Len(sortedCompounds), [acc EXCEPT !.broken = FALSE])

\* Iterations lo..hi of the loop over partitions, in order.  (The test on
\* nScored is always true: it makes the first half be evaluated before the
\* second one is entered.)
RECURSIVE partitionLoop(_, _, _, _, _)
partitionLoop(track, partitions, lo, hi, acc) ==
  IF lo > hi THEN acc
  ELSE IF lo = hi THEN scorePartition(track, partitions[lo], acc)
  ELSE LET mid == (lo + hi) \div 2
           firstHalf == partitionLoop(track, partitions, lo, mid, acc)
       IN  IF firstHalf.nScored >= 0
           THEN partitionLoop(track, partitions, mid + 1, hi, firstHalf)
           ELSE firstHalf

NoPlan == [stints |-> <<>>, totalTimeSeconds |-> 0, numStops |-> 0]

ErrTracksData == <<"tracksData required for modes A/B">>
ErrUnknownTrack(trackName) == <<"Unknown track: ">> \o trackName
ErrNoStrategy == <<"Failed to compute strategy">>

Threw(message) ==
  [ok |-> FALSE, error |-> message, plan |-> NoPlan, nScored |-> 0,
   prunes |-> <<>>]

\* The search of lines 125-154 for one track profile.
searchTrack(track) ==
  LET partitions == generateCandidateStints(track.laps)
      acc == partitionLoop(track, partitions, 1, Len(partitions),
               [best |-> Null, nScored |-> 0, prunes |-> <<>>,
                broken |-> FALSE])
  IN  IF acc.best = Null
      THEN [Threw(ErrNoStrategy) EXCEPT !.nScored = acc.nScored]
      ELSE [ok |-> TRUE, error |-> <<>>, plan |-> Get(acc.best),
            nScored |-> acc.nScored, prunes |-> acc.prunes]

\* Variant: the track is looked up before the table is checked, so a missing
\* table is reported as an unknown track.
predictLookupFirst(input) ==
  IF input.tracksData = Null \/ input.trackName \notin DOMAIN Get(input.tracksData)
  THEN Threw(ErrUnknownTrack(input.trackName))
  ELSE searchTrack(Get(input.tracksData)[input.trackName])

\* Variant: a rain probability of 50 % or more doubles the pit loss.
predictWithRain(input) ==
  IF input.tracksData = Null THEN Threw(ErrTracksData)
  ELSE IF input.trackName \notin DOMAIN Get(input.tracksData)
  THEN Threw(ErrUnknownTrack(input.trackName))
  ELSE LET track == Get(input.tracksData)[input.trackName]
           wet == /\ input.rainProbabilityPct # Null
                  /\ Get(input.rainProbabilityPct) >= 50
       IN  searchTrack(IF wet
                       THEN [track EXCEPT !.pit_loss_seconds = 2 * @]
                       ELSE track)

predictBestStrategy(input) ==
  IF input.tracksData = Null THEN Threw(ErrTracksData)
  ELSE IF input.trackName \notin DOMAIN Get(input.tracksData)
  THEN Threw(ErrUnknownTrack(input.trackName))
  ELSE searchTrack(Get(input.tracksData)[input.trackName])

\* Variant: the milliseconds rounded to the nearest instead of truncated.
formatSecondsRounded(totalSeconds) ==
  LET minutes == totalSeconds \div (60 * TicksPerSecond)
      seconds == (totalSeconds % (60 * TicksPerSecond)) \div TicksPerSecond
      millis == ((totalSeconds - (totalSeconds \div TicksPerSecond)
                                 * TicksPerSecond) * 1000
                 + TicksPerSecond \div 2) \div TicksPerSecond
      mm == String(minutes)
      ss == padStart(String(seconds), 2, "0")
      mmm == padStart(String(millis), 3, "0")
  IN  mm \o <<":">> \o ss \o <<".">> \o mmm

formatSeconds(totalSeconds) ==
  LET minutes == totalSeconds \div (60 * TicksPerSecond)
      seconds == (totalSeconds % (60 * TicksPerSecond)) \div TicksPerSecond
      millis == ((totalSeconds - (totalSeconds \div TicksPerSecond)
                                 * TicksPerSecond) * 1000) \div TicksPerSecond
      mm == String(minutes)
      ss == padStart(String(seconds), 2, "0")
      mmm == padStart(String(millis), 3, "0")
  IN  mm \o <<":">> \o ss \o <<".">> \o mmm

\* plan.totalTimeSeconds is in milliseconds, formatSeconds takes ticks.
formatPlan(plan) ==
  LET stints == join([idx \in DOMAIN plan.stints |->
                        <<"Stint ">> \o String(idx) \o <<": ">>
                        \o <<plan.stints[idx].compound>> \o <<" x ">>
                        \o String(plan.stints[idx].laps) \o <<" laps">>],
                     <<" | ">>)
  IN  stints \o <<" * Stops: ">> \o String(plan.numStops) \o <<" * Total: ">>
      \o formatSeconds(plan.totalTimeSeconds * (TicksPerSecond \div 1000))

(***************************************************************************)
(* OpenF1.ts.  A response of fetch is a network failure ("reject") or an   *)
(* HTTP answer [status, body]; a JSON body is [isArray, items].  A lap is  *)
(* [lap_number, hasDuration, duration, tyre]: lap_number 0 and tyre ""     *)
(* stand for a missing field, duration is read only when hasDuration.      *)
(***************************************************************************)
ErrNetwork == <<"Network request failed">>
ErrOpenF1(status) == <<"OpenF1 error ">> \o String(status)
ErrNotAFunction == <<"TypeError: sessions.find is not a function">>
ErrNotIterable == <<"TypeError: laps is not iterable">>

TelemetryErrors ==
  {ErrNetwork, ErrNotAFunction, ErrNotIterable}
  \cup {ErrOpenF1(status) : status \in {404, 500}}

\* fetchJson: [threw, error, value].
fetchJson(resp) ==
  IF resp.kind = "reject"
  THEN [threw |-> TRUE, error |-> ErrNetwork, value |-> Null]
  ELSE IF ~(resp.status \in 200..299)
  THEN [threw |-> TRUE, error |-> ErrOpenF1(resp.status), value |-> Null]
  ELSE [threw |-> FALSE, error |-> <<>>, value |-> Some(resp.body)]

RECURSIVE SumSeq(_)
SumSeq(xs) == IF Len(xs) = 0 THEN 0 ELSE xs[1] + SumSeq(Tail(xs))

\* [...xs].sort((a, b) => a - b)
sortAscending(xs) ==
  LET before(j, i) == xs[j] < xs[i] \/ (xs[j] = xs[i] /\ j < i)
      position == <<>> \o [i \in DOMAIN xs |->
                    1 + Cardinality({j \in DOMAIN xs : before(j, i)})]
  IN  <<>> \o [r \in DOMAIN xs |->
                 xs[CHOOSE i \in DOMAIN xs : position[i] = r]]

isFlyingLap(l) == l.hasDuration /\ l.duration > 30000 /\ l.duration < 200000

\* laps.map(l => l.duration).filter(number).filter(x => x > 30 && x < 200)
flyingDurations(laps) ==
  LET kept == SelectSeq(laps, isFlyingLap)
  IN  <<>> \o [i \in DOMAIN kept |-> kept[i].duration]

\* Variant: the median taken at index floor((n - 1) / 2) and no upper clamp.
inferPitLossLowMedian(body) ==
  IF ~body.isArray \/ Len(body.items) = 0 THEN Null
  ELSE LET durations == flyingDurations(body.items)
       IN  IF Len(durations) < 10 THEN Null
           ELSE LET sorted == sortAscending(durations)
                    median == sorted[((Len(sorted) - 1) \div 2) + 1]
                    max == sorted[Len(sorted)]
                IN  Some(Max2(15000, max - median))

\* body.isArray = FALSE: laps.length is undefined, the function returns null.
inferPitLossFromLaps(body) ==
  IF ~body.isArray \/ Len(body.items) = 0 THEN Null
  ELSE LET durations == flyingDurations(body.items)
       IN  IF Len(durations) < 10 THEN Null
           ELSE LET sorted == sortAscending(durations)
                    median == sorted[(Len(sorted) \div 2) + 1]
                    max == sorted[Len(sorted)]
                IN  Some(Max2(15000, Min2(30000, max - median)))

\* (l.tyre || '').toUpperCase() on the tyre labels of the model.
toUpperCase(label) ==
  CASE label \in {"soft", "Soft", "SOFT"} -> "SOFT"
    [] label \in {"medium", "Medium", "MEDIUM"} -> "MEDIUM"
    [] label \in {"hard", "Hard", "HARD"} -> "HARD"
    [] label \in {"wet", "WET"} -> "WET"
    [] OTHER -> label

usableLap(l) ==
  /\ toUpperCase(l.tyre) # ""
  /\ l.hasDuration /\ l.duration # 0
  /\ l.lap_number # 0

\* Variant: the slope is not raised to the lower limit.
tyreSlopeWithoutFloor(arr) ==
  LET n == Len(arr)
      sumX == SumSeq([i \in DOMAIN arr |-> arr[i].lap_number])
      sumY == SumSeq([i \in DOMAIN arr |-> arr[i].duration])
      num == SumSeq([i \in DOMAIN arr |->
               (n * arr[i].lap_number - sumX) * (n * arr[i].duration - sumY)])
      den == SumSeq([i \in DOMAIN arr |->
               (n * arr[i].lap_number - sumX) * (n * arr[i].lap_number - sumX)])
  IN  IF n < 12 THEN Null
      ELSE IF den <= 0 THEN Null
      ELSE IF num >= 250 * den THEN Some(250)
      ELSE Some(num \div den)

\* Least-squares slope of one tyre group, clamped to [0.03, 0.25] s/lap; null
\* with fewer than 12 points or a zero denominator.  num and den are both
\* scaled by n*n, which leaves the slope unchanged.
tyreSlope(arr) ==
  LET n == Len(arr)
      sumX == SumSeq([i \in DOMAIN arr |-> arr[i].lap_number])
      sumY == SumSeq([i \in DOMAIN arr |-> arr[i].duration])
      num == SumSeq([i \in DOMAIN arr |->
               (n * arr[i].lap_number - sumX) * (n * arr[i].duration - sumY)])
      den == SumSeq([i \in DOMAIN arr |->
               (n * arr[i].lap_number - sumX) * (n * arr[i].lap_number - sumX)])
  IN  IF n < 12 THEN Null
      ELSE IF den <= 0 THEN Null
      ELSE IF num <= 30 * den THEN Some(30)
      ELSE IF num >= 250 * den THEN Some(250)
      ELSE Some(num \div den)

\* [threw, error, value]: value is null or the record tyre -> slope of the
\* tyres that have an estimate.  A body that is not an array is not iterable.
inferDegradationFromLaps(body) ==
  IF ~body.isArray
  THEN [threw |-> TRUE, error |-> ErrNotIterable, value |-> Null]
  ELSE LET usable == SelectSeq(body.items, usableLap)
           byTyre == {toUpperCase(usable[i].tyre) : i \in DOMAIN usable}
           group(t) == SelectSeq(usable,
                                 LAMBDA l : toUpperCase(l.tyre) = t)
           estimated == {t \in byTyre : tyreSlope(group(t)) # Null}
           result == [t \in estimated |-> Get(tyreSlope(group(t)))]
       IN  [threw |-> FALSE, error |-> <<>>,
            value |-> IF byTyre = {} \/ estimated = {} THEN Null
                      ELSE Some(result)]

(***************************************************************************)
(* App.tsx, onPredict: the pure parts.                                     *)
(***************************************************************************)
lowerChar(ch) ==
  CASE ch = "M" -> "m" [] ch = "B" -> "b" [] ch = "S" -> "s" [] OTHER -> ch

toLowerCase(str) == <<>> \o [i \in DOMAIN str |-> lowerChar(str[i])]

includes(str, part) ==
  \E i \in 0..(Len(str) - Len(part)) : SubSeq(str, i + 1, i + Len(part)) = part

RECURSIVE Number(_)
Number(str) ==
  IF Len(str) = 0 THEN 0
  ELSE Number(SubSeq(str, 1, Len(str) - 1)) * 10
       + (CHOOSE d \in 0..9 : DigitChars[d + 1] = str[Len(str)])

\* Number(raceYear || '2024'), Number(rainProb || '0')
numberOr(str, default) == IF str = <<>> THEN default ELSE Number(str)

sessionMatches(session, trackName) ==
  /\ session.hasName
  /\ includes(toLowerCase(session.circuit_short_name), toLowerCase(trackName))

\* sessions?.find(...): null or the first matching session.
findRace(sessions, trackName) ==
  LET matching == SelectSeq(sessions, LAMBDA x : sessionMatches(x, trackName))
  IN  IF Len(matching) = 0 THEN Null ELSE Some(matching[1])

RECURSIVE valuesOf(_, _)
valuesOf(table, names) ==
  IF names = {} THEN <<>>
  ELSE LET n == CHOOSE x \in names : TRUE
       IN  <<table[n]>> \o valuesOf(table, names \ {n})

\* values.reduce((a, t) => a + field(t), 0) / values.length
averageOf(fields) == SumSeq(fields) \div Len(fields)

\* (deg?.X as any) ?? fallback
slopeOr(deg, compound, fallback) ==
  IF deg # Null /\ compound \in DOMAIN Get(deg) THEN Get(deg)[compound]
  ELSE fallback

\* pit || fallback
pitOr(pit, fallback) ==
  IF pit # Null /\ Get(pit) # 0 THEN Get(pit) ELSE fallback

\* Lines 54-82: the entry built for a track the catalog does not have.
dynamicTrackEntry(tracks, laps, pit, deg) ==
  LET durations == flyingDurations(laps)
      sorted == sortAscending(durations)
      p20 == IF Len(sorted) # 0 THEN sorted[((Len(sorted) * 2) \div 10) + 1]
             ELSE 90000
      lapsCount == IF Len(laps) # 0
                   THEN CHOOSE m \in {laps[i].lap_number : i \in DOMAIN laps} :
                          \A i \in DOMAIN laps : laps[i].lap_number <= m
                   ELSE 50
      values == valuesOf(tracks, DOMAIN tracks)
      avgPit == averageOf([i \in DOMAIN values |->
                             values[i].pit_loss_seconds])
      avgBase == averageOf([i \in DOMAIN values |->
                              values[i].base_lap_time_seconds])
      avgDeg == [c \in {"SOFT", "MEDIUM", "HARD"} |->
                   averageOf([i \in DOMAIN values |->
                                values[i].degradation_per_lap_seconds[c]])]
  IN  [laps |-> lapsCount,
       pit_loss_seconds |-> pitOr(pit, avgPit),
       base_lap_time_seconds |-> IF p20 # 0 THEN p20 ELSE avgBase,
       degradation_per_lap_seconds |->
         [c \in {"SOFT", "MEDIUM", "HARD"} |-> slopeOr(deg, c, avgDeg[c])]]

\* Variant: a compound without an inferred slope gets the lowest slope.
refinedTrackEntryLowestSlope(entry, pit, deg) ==
  [entry EXCEPT
     !.pit_loss_seconds = pitOr(pit, entry.pit_loss_seconds),
     !.degradation_per_lap_seconds =
        IF deg # Null
        THEN [c \in DOMAIN @ |-> slopeOr(deg, c, 30)]
        ELSE @]

\* Lines 83-99: the catalog entry refined with what was inferred.
refinedTrackEntry(entry, pit, deg) ==
  [entry EXCEPT
     !.pit_loss_seconds = pitOr(pit, entry.pit_loss_seconds),
     !.degradation_per_lap_seconds =
        IF deg # Null
        THEN [c \in DOMAIN @ |-> slopeOr(deg, c, @[c])]
        ELSE @]

withEntry(table, name, entry) ==
  [n \in DOMAIN table \cup {name} |-> IF n = name THEN entry ELSE table[n]]

\* Lines 53-100: tracksForRun after a calibration that did not throw.
calibratedTracks(tracks, trackName, laps, pit, deg) ==
  IF trackName \notin DOMAIN tracks
  THEN withEntry(tracks, trackName, dynamicTrackEntry(tracks, laps, pit, deg))
  ELSE IF (pit # Null /\ Get(pit) # 0) \/ deg # Null
  THEN withEntry(tracks, trackName,
                 refinedTrackEntry(tracks[trackName], pit, deg))
  ELSE tracks

(***************************************************************************)
(* Inputs.  Track names, track profiles and profile tables the engine is   *)
(* called with.                                                            *)
(***************************************************************************)
Monza == <<"M", "o", "n", "z", "a">>
Melbourne == <<"M", "e", "l", "b">>
Baku == <<"B", "a", "k", "u">>

StandardDegradation == [SOFT |-> 130, MEDIUM |-> 90, HARD |-> 65]

DegradationTables ==
  {StandardDegradation,
   [SOFT |-> 90, MEDIUM |-> 10, HARD |-> 300],
   [SOFT |-> 100, MEDIUM |-> 100, HARD |-> 100]}

PitLosses == {5, 20000}
BaseLapTimes == {60000, 92000}

Profiles ==
  [laps : 1..MaxLaps, pit_loss_seconds : PitLosses,
   base_lap_time_seconds : BaseLapTimes,
   degradation_per_lap_seconds : DegradationTables]

\* totalLaps=58, baseLapTimeSeconds=92, pitLossSeconds=20 and the standard
\* degradation rates.
ScenarioProfile ==
  [laps |-> 58, pit_loss_seconds |-> 20000, base_lap_time_seconds |-> 92000,
   degradation_per_lap_seconds |-> StandardDegradation]

MonzaProfile ==
  [laps |-> 3, pit_loss_seconds |-> 20000, base_lap_time_seconds |-> 80000,
   degradation_per_lap_seconds |-> StandardDegradation]

Table1(name, profile) == [n \in {name} |-> profile]
Table2(n1, p1, n2, p2) == [n \in {n1, n2} |-> IF n = n1 THEN p1 ELSE p2]

EngineTables ==
  {Table1(Monza, p) : p \in Profiles}
  \cup {Table2(Monza, MonzaProfile, Melbourne, ScenarioProfile)}

DefaultInput(trackName, tracksData) ==
  [trackName |-> trackName, raceYear |-> 2024, driverName |-> Null,
   rainProbabilityPct |-> Some(0), mode |-> Some("C"),
   tracksData |-> tracksData]

\* Values of the fields the search is not meant to read.
OtherFields ==
  {[raceYear |-> 2024, driverName |-> Null, rainProbabilityPct |-> Some(0),
    mode |-> Some("C")],
   [raceYear |-> 2023, driverName |-> Some("VER"),
    rainProbabilityPct |-> Some(100), mode |-> Some("A")],
   [raceYear |-> 2024, driverName |-> Some("VER"),
    rainProbabilityPct |-> Null, mode |-> Null]}

OtherProfile ==
  [laps |-> 4, pit_loss_seconds |-> 20000, base_lap_time_seconds |-> 80000,
   degradation_per_lap_seconds |-> [SOFT |-> 90, MEDIUM |-> 10, HARD |-> 305]]

PairTables ==
  {Table1(Monza, MonzaProfile),
   Table2(Monza, MonzaProfile, Melbourne, OtherProfile),
   Table1(Monza, OtherProfile)}

PairInputs ==
  {[trackName |-> n, raceYear |-> o.raceYear, driverName |-> o.driverName,
    rainProbabilityPct |-> o.rainProbabilityPct, mode |-> o.mode,
    tracksData |-> Some(t)] :
     n \in {Monza, Melbourne}, o \in OtherFields, t \in PairTables}

EngineInputs ==
  {DefaultInput(n, t) : n \in {Monza, Melbourne, Baku},
                        t \in {Null} \cup {Some(x) : x \in EngineTables}}

\* Arguments of formatSeconds, in ticks.
FormatInputs ==
  {(m * 60 + sec) * TicksPerSecond + frac :
     m \in (0..MaxMinutes) \cup {60},
     sec \in {0, 5, 9, 10, 59},
     frac \in {0, 9, 10, 999, 4567, 9990, 9999}}

\* The static catalog (assets/data/tracks.json) the screen may be loaded with.
Catalogs ==
  {Table1(Monza, MonzaProfile),
   Table2(Monza, MonzaProfile, Melbourne, OtherProfile)}

\* What the user has typed when pressing "Predict strategy".
Mon == <<"m", "o", "n">>

Requests ==
  {[trackName |-> n, raceYear |-> o[1], driverName |-> o[2],
    rainProb |-> o[3]] :
     n \in {Monza, Mon, Baku},
     o \in {<< <<>>, <<>>, <<>> >>,
            << <<"2", "0", "2", "3">>, <<"V", "E", "R">>, <<"6", "0">> >>}}

\* Answers of the OpenF1 server.
Session(name, key) ==
  [hasName |-> TRUE, circuit_short_name |-> name, session_key |-> key]

SessionBodies ==
  {[isArray |-> FALSE, items |-> <<>>],
   [isArray |-> TRUE, items |-> <<>>],
   [isArray |-> TRUE, items |-> <<Session(Monza, 9590)>>],
   [isArray |-> TRUE, items |-> <<Session(Monza, 0)>>],
   [isArray |-> TRUE,
    items |-> <<[hasName |-> FALSE, circuit_short_name |-> <<>>,
                 session_key |-> 9001],
                Session(<<"S", "p", "a">>, 9002), Session(Monza, 9590)>>]}

LinearLaps(n, tyre, base, slope) ==
  [i \in 1..n |-> [lap_number |-> i, hasDuration |-> TRUE,
                   duration |-> base + slope * i, tyre |-> tyre]]

SameLapNumber(laps, number) ==
  [i \in DOMAIN laps |-> [laps[i] EXCEPT !.lap_number = number]]

LapBodies ==
  {[isArray |-> FALSE, items |-> <<>>],
   [isArray |-> TRUE, items |-> <<>>],
   [isArray |-> TRUE,
    items |-> SameLapNumber(LinearLaps(3, "SOFT", 90000, 100), 0)],
   [isArray |-> TRUE, items |-> LinearLaps(8, "SOFT", 90000, 100)],
   [isArray |-> TRUE, items |-> LinearLaps(10, "MEDIUM", 90000, 3000)],
   [isArray |-> TRUE, items |-> LinearLaps(12, "soft", 90000, 100)],
   [isArray |-> TRUE,
    items |-> LinearLaps(12, "soft", 90000, 100)
              \o LinearLaps(13, "HARD", 90000, 2000)]}

\* Lap lists for inferPitLossFromLaps: n laps whose durations rise (or fall)
\* by step from 60 s, followed by laps at the limits of the filter.
Lap(number, duration) ==
  [lap_number |-> number, hasDuration |-> TRUE, duration |-> duration,
   tyre |-> "SOFT"]

LapWithoutDuration(number) ==
  [lap_number |-> number, hasDuration |-> FALSE, duration |-> 0,
   tyre |-> "SOFT"]

SpreadLaps(n, step, rising) ==
  [i \in 1..n |->
     Lap(i, 60000 + step * (IF rising THEN i ELSE n + 1 - i))]

LimitLaps ==
  {<<>>, <<Lap(40, 30000)>>, <<Lap(40, 200000)>>, <<LapWithoutDuration(40)>>,
   <<Lap(40, 199999)>>, <<Lap(40, 30001)>>,
   <<Lap(40, 30000), Lap(41, 200000), LapWithoutDuration(42)>>}

PitBodies ==
  {[isArray |-> FALSE, items |-> <<>>]}
  \cup {[isArray |-> TRUE, items |-> SpreadLaps(n, step, rising) \o limit] :
          n \in {0, 9, 10, 11}, step \in {100, 5000, 10000},
          rising \in BOOLEAN, limit \in LimitLaps}

\* Lap lists for inferDegradationFromLaps: one group per tyre label, n laps
\* numbered from first whose durations follow base + slope * i.
TyreLaps(label, n, first, base, slope) ==
  [i \in 1..n |->
     [lap_number |-> first + i - 1, hasDuration |-> TRUE,
      duration |-> base + slope * i, tyre |-> label]]

WithoutDuration(laps, i) ==
  [laps EXCEPT ![i] = [@ EXCEPT !.hasDuration = FALSE, !.duration = 0]]

SlowerLap(laps, i, extra) ==
  [laps EXCEPT ![i] = [@ EXCEPT !.duration = @ + extra]]

SoftGroups ==
  {<<>>,
   TyreLaps("SOFT", 11, 1, 90000, 100),
   TyreLaps("SOFT", 12, 1, 90000, 100),
   TyreLaps("soft", 6, 1, 90000, 100) \o TyreLaps("SOFT", 6, 7, 90600, 100),
   TyreLaps("SOFT", 12, 1, 90000, 10),
   TyreLaps("SOFT", 12, 1, 90000, 400),
   TyreLaps("SOFT", 12, 1, 95000, 0 - 100),
   TyreLaps("SOFT", 12, 1, 90000, 0),
   SameLapNumber(TyreLaps("SOFT", 12, 1, 90000, 100), 5),
   WithoutDuration(TyreLaps("SOFT", 12, 1, 90000, 100), 4),
   WithoutDuration(TyreLaps("SOFT", 13, 1, 90000, 100), 4),
   SlowerLap(TyreLaps("SOFT", 12, 1, 90000, 100), 12, 777),
   TyreLaps("", 12, 1, 90000, 100)}

HardGroups ==
  {<<>>,
   TyreLaps("HARD", 11, 13, 90000, 65),
   TyreLaps("HARD", 12, 13, 90000, 65),
   TyreLaps("Hard", 13, 13, 90000, 2000),
   TyreLaps("hard", 12, 13, 90000, 30),
   TyreLaps("WET", 12, 13, 99000, 250)}

DegBodies ==
  {[isArray |-> FALSE, items |-> <<>>]}
  \cup {[isArray |-> TRUE, items |-> s \o h] :
          s \in SoftGroups, h \in HardGroups}
  \cup {[isArray |-> TRUE, items |-> h \o s] :
          s \in SoftGroups, h \in HardGroups}

Responses(bodies) ==
  {[kind |-> "reject", status |-> 0, body |-> [isArray |-> FALSE,
                                               items |-> <<>>]]}
  \cup {[kind |-> "http", status |-> 500,
         body |-> [isArray |-> FALSE, items |-> <<>>]]}
  \cup {[kind |-> "http", status |-> 200, body |-> b] : b \in bodies}

(***************************************************************************)
(* State.                                                                  *)
(***************************************************************************)
VARIABLES
  calls,          \* the engine calls made so far: <<[input, out], ...>>
  clock,          \* the last formatSeconds call: null or [totalSeconds, text]
  inferred,       \* the last call of an OpenF1 inference: null or [fn, body, out]
  helperCalls,    \* calls of the engine's internal functions: <<[fn, args, out]>>
  search,         \* predictBestStrategy run loop iteration by loop iteration
  tracks,         \* StrategyScreen: the loaded catalog, null before loading
  loading,        \* StrategyScreen: a prediction request is running
  result,         \* StrategyScreen: the formatted plan, or null
  error,          \* StrategyScreen: the error message shown, or null
  pc,             \* onPredict: "idle", "awaitSessions", "awaitLaps", "search"
  req,            \* onPredict: the inputs captured by the running request
  tracksForRun,   \* onPredict: the table handed to the search
  sessionsResp,   \* the answer to getRaceSessions, null while outstanding
  lapsResp,       \* the answer to getLaps, null while outstanding
  race,           \* onPredict: the session found, or null
  caught,         \* the telemetry failure swallowed by this request, or null
  searched        \* the input this request called the search with, or null

engineVars == <<calls, clock, inferred, helperCalls, search>>
screenVars == <<tracks, loading, result, error>>
requestVars ==
  <<pc, req, tracksForRun, sessionsResp, lapsResp, race, caught, searched>>
vars == <<engineVars, screenVars, requestVars>>

NoRequest ==
  [trackName |-> Monza, raceYear |-> <<"2", "0", "2", "4">>,
   driverName |-> <<>>, rainProb |-> <<"0">>]

Init ==
  /\ calls = <<>>
  /\ clock = Null
  /\ inferred = Null
  /\ helperCalls = <<>>
  /\ search = Null
  /\ tracks = Null
  /\ loading = FALSE
  /\ result = Null
  /\ error = Null
  /\ pc = "idle"
  /\ req = NoRequest
  /\ tracksForRun = Null
  /\ sessionsResp = Null
  /\ lapsResp = Null
  /\ race = Null
  /\ caught = Null
  /\ searched = Null

(***************************************************************************)
(* A caller invokes the exported predictBestStrategy.                      *)
(***************************************************************************)
CallEngine(input) ==
  /\ Len(calls) < MaxCalls
  /\ calls' = Append(calls, [input |-> input,
                             out |-> predictBestStrategy(input)])
  /\ UNCHANGED <<clock, inferred, helperCalls, search, screenVars,
                 requestVars>>

\* One call, over every track profile of the model.
EngineNext ==
  \E input \in EngineInputs : calls = <<>> /\ CallEngine(input)

EngineSpec == Init /\ [][EngineNext]_vars

\* Several calls, over inputs that differ in the fields the search does not
\* read.
PairNext == \E input \in PairInputs : CallEngine(input)

PairSpec == Init /\ [][PairNext]_vars

(***************************************************************************)
(* A caller invokes the exported formatSeconds.                            *)
(***************************************************************************)
CallFormat(totalSeconds) ==
  /\ clock' = Some([totalSeconds |-> totalSeconds,
                    text |-> formatSeconds(totalSeconds)])
  /\ UNCHANGED <<calls, inferred, helperCalls, search, screenVars,
                 requestVars>>

FormatNext == \E totalSeconds \in FormatInputs : CallFormat(totalSeconds)

FormatSpec == Init /\ [][FormatNext]_vars

(***************************************************************************)
(* Calls of the engine's internal functions.                               *)
(***************************************************************************)
\* The fuel penalties passed: the default of the fourth parameter, which is
\* what a call with three arguments gets, and a larger one.
FuelPenalties == {fuelPenaltyPerLap, 40}

StintInputs ==
  {[baseLap |-> b, degPerLap |-> dg, laps |-> n, fuel |-> f] :
     b \in {1, 92000}, dg \in {0, 130}, n \in (1..MaxLaps) \cup {58},
     f \in FuelPenalties}

CallStintTime(args) ==
  /\ Len(helperCalls) < MaxCalls
  /\ helperCalls' =
       Append(helperCalls,
              [fn |-> "computeStintTimeSeconds", args |-> args,
               out |-> computeStintTimeSeconds(args.baseLap, args.degPerLap,
                                               args.laps, args.fuel)])
  /\ UNCHANGED <<calls, clock, inferred, search, screenVars, requestVars>>

StintNext == \E args \in StintInputs : CallStintTime(args)

StintSpec == Init /\ [][StintNext]_vars

CandidateLaps == (1..(2 * MaxLaps)) \cup {58}

CallCandidates(totalLaps) ==
  /\ Len(helperCalls) < MaxCalls
  /\ helperCalls' =
       Append(helperCalls,
              [fn |-> "generateCandidateStints", args |-> totalLaps,
               out |-> generateCandidateStints(totalLaps)])
  /\ UNCHANGED <<calls, clock, inferred, search, screenVars, requestVars>>

CallAssignCompounds(numStints) ==
  /\ Len(helperCalls) < MaxCalls
  /\ helperCalls' =
       Append(helperCalls,
              [fn |-> "assignCompounds", args |-> numStints,
               out |-> assignCompounds(numStints)])
  /\ UNCHANGED <<calls, clock, inferred, search, screenVars, requestVars>>

\* The searches run next to the calls of the internal functions.
HelperEngineInputs ==
  {DefaultInput(Monza, Some(Table1(Monza, p))) :
     p \in {MonzaProfile, OtherProfile}}

\* At most MaxCalls calls in all.
HelperNext ==
  /\ Len(calls) + Len(helperCalls) < MaxCalls
  /\ \/ \E totalLaps \in CandidateLaps : CallCandidates(totalLaps)
     \/ \E numStints \in 1..4 : CallAssignCompounds(numStints)
     \/ \E input \in HelperEngineInputs : CallEngine(input)

HelperSpec == Init /\ [][HelperNext]_vars

(***************************************************************************)
(* predictBestStrategy, one loop iteration per step.  The run is           *)
(* [track, partitions, p, sortedCompounds, k, best, broken, scored,        *)
(* returned]: p and k are the positions of the two for loops (k is the     *)
(* next assignment to score), broken says that the inner loop was left by  *)
(* `break`, scored lists the plans scored so far, in the order scored.     *)
(***************************************************************************)
SearchTracks == Profiles

\* Lines 125-130: the partitions are generated and the first one is entered.
BeginSearch(track) ==
  /\ search = Null
  /\ LET partitions == generateCandidateStints(track.laps)
     IN  search' = Some([track |-> track, partitions |-> partitions, p |-> 1,
                         sortedCompounds |->
                           sortedCompoundsOf(Len(partitions[1])),
                         k |-> 1, best |-> Null, broken |-> FALSE,
                         scored |-> <<>>, returned |-> Null])
  /\ UNCHANGED <<calls, clock, inferred, helperCalls, screenVars, requestVars>>

LoopLeft(run) == run.broken \/ run.k > Len(run.sortedCompounds)

\* Lines 131-149: one assignment is scored, best is updated, then the
\* pruning test decides whether the inner loop is left.
ScoreNext ==
  /\ search # Null
  /\ Get(search).returned = Null
  /\ ~LoopLeft(Get(search))
  /\ LET run == Get(search)
         plan == scorePlan(run.track, run.partitions[run.p],
                           run.sortedCompounds[run.k])
         newBest == IF replacesBest(plan, run.best)
                    THEN Some(plan) ELSE run.best
     IN  search' = Some([run EXCEPT !.best = newBest, !.k = @ + 1,
                                    !.broken = pruneAfter(plan, newBest),
                                    !.scored = Append(@, plan)])
  /\ UNCHANGED <<calls, clock, inferred, helperCalls, screenVars, requestVars>>

\* Lines 127-130: the outer loop moves on to the next partition.
NextPartition ==
  /\ search # Null
  /\ Get(search).returned = Null
  /\ LoopLeft(Get(search))
  /\ Get(search).p < Len(Get(search).partitions)
  /\ LET run == Get(search)
     IN  search' = Some([run EXCEPT
                           !.p = @ + 1,
                           !.sortedCompounds =
                              sortedCompoundsOf(Len(run.partitions[run.p + 1])),
                           !.k = 1, !.broken = FALSE])
  /\ UNCHANGED <<calls, clock, inferred, helperCalls, screenVars, requestVars>>

\* Lines 153-154: the outer loop is over, best is returned (or the call
\* throws).
ReturnBest ==
  /\ search # Null
  /\ Get(search).returned = Null
  /\ LoopLeft(Get(search))
  /\ Get(search).p = Len(Get(search).partitions)
  /\ LET run == Get(search)
     IN  search' = Some([run EXCEPT
                           !.returned =
                              Some(IF run.best = Null
                                   THEN [ok |-> FALSE, plan |-> NoPlan]
                                   ELSE [ok |-> TRUE, plan |-> Get(run.best)])])
  /\ UNCHANGED <<calls, clock, inferred, helperCalls, screenVars, requestVars>>

SearchNext ==
  \/ \E track \in SearchTracks : BeginSearch(track)
  \/ ScoreNext
  \/ NextPartition
  \/ ReturnBest

SearchSpec == Init /\ [][SearchNext]_vars

(***************************************************************************)
(* A caller invokes the exported inference functions of OpenF1.ts.         *)
(***************************************************************************)
CallInferPitLoss(body) ==
  /\ inferred' = Some([fn |-> "inferPitLossFromLaps", body |-> body,
                       out |-> inferPitLossFromLaps(body)])
  /\ UNCHANGED <<calls, clock, helperCalls, search, screenVars,
                 requestVars>>

CallInferDegradation(body) ==
  /\ inferred' = Some([fn |-> "inferDegradationFromLaps", body |-> body,
                       out |-> inferDegradationFromLaps(body)])
  /\ UNCHANGED <<calls, clock, helperCalls, search, screenVars,
                 requestVars>>

TelemetryNext ==
  \/ \E body \in PitBodies : CallInferPitLoss(body)
  \/ \E body \in DegBodies : CallInferDegradation(body)

TelemetrySpec == Init /\ [][TelemetryNext]_vars

(***************************************************************************)
(* The strategy screen.                                                    *)
(***************************************************************************)
\* useEffect: loadStaticTracks().then(setTracks)
LoadTracks(catalog) ==
  /\ tracks = Null
  /\ error = Null
  /\ tracks' = Some(catalog)
  /\ UNCHANGED <<engineVars, loading, result, error, requestVars>>

\* useEffect: loadStaticTracks() rejected, .catch(e => setError(String(e)))
LoadTracksFails ==
  /\ tracks = Null
  /\ error = Null
  /\ error' = Some(<<"Error: Cannot find module">>)
  /\ UNCHANGED <<engineVars, tracks, loading, result, requestVars>>

\* Variant of onPredict: tracksForRun kept from one request to the next, as
\* if it were declared outside onPredict.
StartPredictFromLastRun(r) ==
  /\ tracks # Null
  /\ ~loading
  /\ pc = "idle"
  /\ loading' = TRUE
  /\ result' = Null
  /\ error' = Null
  /\ req' = r
  /\ tracksForRun' = IF tracksForRun # Null THEN tracksForRun ELSE tracks
  /\ sessionsResp' = Null
  /\ lapsResp' = Null
  /\ race' = Null
  /\ caught' = Null
  /\ searched' = Null
  /\ pc' = "awaitSessions"
  /\ UNCHANGED <<engineVars, tracks>>

\* onPredict up to the first await (lines 37-46).  The button is disabled
\* while tracks is null or a request is loading.
StartPredict(r) ==
  /\ tracks # Null
  /\ ~loading
  /\ pc = "idle"
  /\ loading' = TRUE
  /\ result' = Null
  /\ error' = Null
  /\ req' = r
  /\ tracksForRun' = tracks
  /\ sessionsResp' = Null
  /\ lapsResp' = Null
  /\ race' = Null
  /\ caught' = Null
  /\ searched' = Null
  /\ pc' = "awaitSessions"
  /\ UNCHANGED <<engineVars, tracks>>

\* The server answers getRaceSessions.
SessionsArrive(resp) ==
  /\ pc = "awaitSessions"
  /\ sessionsResp = Null
  /\ sessionsResp' = Some(resp)
  /\ UNCHANGED <<engineVars, screenVars, pc, req, tracksForRun, lapsResp,
                 race, caught, searched>>

\* Variant of the catch block: the failure reaches the outer catch, is shown
\* as the error of the request and the search is not run.
Propagate(e) ==
  /\ caught' = Some(e)
  /\ pc' = "idle"
  /\ error' = Some(e)
  /\ loading' = FALSE
  /\ UNCHANGED <<engineVars, tracks, result, req, tracksForRun, sessionsResp,
                 lapsResp, race, searched>>

\* The inner catch block (lines 102-104): the failure is dropped and the
\* request goes on to the search.
Swallow(e) ==
  /\ caught' = Some(e)
  /\ pc' = "search"
  /\ UNCHANGED <<engineVars, screenVars, req, tracksForRun, sessionsResp,
                 lapsResp, race, searched>>

\* onPredict resumes after await getRaceSessions (lines 46-49).
AfterSessions ==
  /\ pc = "awaitSessions"
  /\ sessionsResp # Null
  /\ LET fetched == fetchJson(Get(sessionsResp))
     IN  IF fetched.threw THEN Swallow(fetched.error)
         ELSE IF ~Get(fetched.value).isArray THEN Swallow(ErrNotAFunction)
         ELSE LET found == findRace(Get(fetched.value).items, req.trackName)
              IN  /\ race' = found
                  /\ pc' = IF found # Null /\ Get(found).session_key # 0
                           THEN "awaitLaps" ELSE "search"
                  /\ UNCHANGED <<engineVars, screenVars, req, tracksForRun,
                                 sessionsResp, lapsResp, caught, searched>>

\* The server answers getLaps.
LapsArrive(resp) ==
  /\ pc = "awaitLaps"
  /\ lapsResp = Null
  /\ lapsResp' = Some(resp)
  /\ UNCHANGED <<engineVars, screenVars, pc, req, tracksForRun, sessionsResp,
                 race, caught, searched>>

\* onPredict resumes after await getLaps (lines 49-101).
AfterLaps ==
  /\ pc = "awaitLaps"
  /\ lapsResp # Null
  /\ LET fetched == fetchJson(Get(lapsResp))
     IN  IF fetched.threw THEN Swallow(fetched.error)
         ELSE LET body == Get(fetched.value)
                  pit == inferPitLossFromLaps(body)
                  deg == inferDegradationFromLaps(body)
              IN  IF deg.threw THEN Swallow(deg.error)
                  ELSE /\ tracksForRun' =
                            Some(calibratedTracks(Get(tracks), req.trackName,
                                                  body.items, pit, deg.value))
                       /\ pc' = "search"
                       /\ UNCHANGED <<engineVars, screenVars, req,
                                      sessionsResp, lapsResp, race, caught,
                                      searched>>

engineInputOf(r, table) ==
  [trackName |-> r.trackName,
   raceYear |-> numberOr(r.raceYear, 2024),
   driverName |-> IF r.driverName = <<>> THEN Null ELSE Some(r.driverName),
   rainProbabilityPct |-> Some(numberOr(r.rainProb, 0)),
   tracksData |-> table,
   mode |-> Some("C")]

\* Lines 106-119: the search, then setResult or setError, then
\* setLoading(false).
RunSearch ==
  /\ pc = "search"
  /\ LET input == engineInputOf(req, tracksForRun)
         out == predictBestStrategy(input)
     IN  /\ searched' = Some(input)
         /\ result' = IF out.ok THEN Some(formatPlan(out.plan)) ELSE result
         /\ error' = IF out.ok THEN error ELSE Some(out.error)
  /\ loading' = FALSE
  /\ pc' = "idle"
  /\ UNCHANGED <<engineVars, tracks, req, tracksForRun, sessionsResp,
                 lapsResp, race, caught>>

Next ==
  \/ \E catalog \in Catalogs : LoadTracks(catalog)
  \/ LoadTracksFails
  \/ \E r \in Requests : StartPredict(r)
  \/ \E resp \in Responses(SessionBodies) : SessionsArrive(resp)
  \/ AfterSessions
  \/ \E resp \in Responses(LapBodies) : LapsArrive(resp)
  \/ AfterLaps
  \/ RunSearch

Spec == Init /\ [][Next]_vars

(***************************************************************************)
(* Several prediction requests in a row.  The call of predictBestStrategy  *)
(* made by each request is recorded in calls, input and outcome, and the   *)
(* number of requests is bounded by MaxCalls.                              *)
(***************************************************************************)
RepeatRequests ==
  {[trackName |-> n, raceYear |-> <<>>, driverName |-> <<>>,
    rainProb |-> <<>>] : n \in {Monza, Mon}}

RepeatSessionResponses ==
  {r \in Responses(SessionBodies) :
     \/ r.kind = "reject"
     \/ r.body \in {[isArray |-> TRUE, items |-> <<>>],
                    [isArray |-> TRUE, items |-> <<Session(Monza, 9590)>>]}}

RepeatLapResponses ==
  {r \in Responses(LapBodies) :
     \/ r.kind = "reject"
     \/ r.body = [isArray |-> TRUE,
                  items |-> LinearLaps(10, "MEDIUM", 90000, 3000)]}

\* Lines 106-119, with the call recorded.
RunSearchRecorded ==
  /\ pc = "search"
  /\ LET input == engineInputOf(req, tracksForRun)
         out == predictBestStrategy(input)
     IN  /\ searched' = Some(input)
         /\ calls' = Append(calls, [input |-> input, out |-> out])
         /\ result' = IF out.ok THEN Some(formatPlan(out.plan)) ELSE result
         /\ error' = IF out.ok THEN error ELSE Some(out.error)
  /\ loading' = FALSE
  /\ pc' = "idle"
  /\ UNCHANGED <<clock, inferred, helperCalls, search, tracks, req,
                 tracksForRun, sessionsResp, lapsResp, race, caught>>

RepeatNext ==
  \/ \E catalog \in Catalogs : LoadTracks(catalog)
  \/ \E r \in RepeatRequests : Len(calls) < MaxCalls /\ StartPredict(r)
  \/ \E resp \in RepeatSessionResponses : SessionsArrive(resp)
  \/ AfterSessions
  \/ \E resp \in RepeatLapResponses : LapsArrive(resp)
  \/ AfterLaps
  \/ RunSearchRecorded

RepeatSpec == Init /\ [][RepeatNext]_vars

\* The continuations of onPredict seen on the program counter alone.  A
\* step of Next that leaves awaitSessions is an AfterSessions step, one that
\* leaves awaitLaps is an AfterLaps step and one that leaves search is a
\* RunSearch step, and each of these actions is enabled exactly when its
\* guard on pc and on the awaited answer holds.
ResumeAfterSessions ==
  /\ pc = "awaitSessions"
  /\ sessionsResp # Null
  /\ pc' \in {"awaitLaps", "search"}

ResumeAfterLaps ==
  /\ pc = "awaitLaps"
  /\ lapsResp # Null
  /\ pc' = "search"

FinishSearch ==
  /\ pc = "search"
  /\ pc' = "idle"

\* The event loop runs every continuation whose awaited promise is settled;
\* no answer of the server is guaranteed to arrive.
FairSpec ==
  /\ Spec
  /\ WF_pc(ResumeAfterSessions)
  /\ WF_pc(ResumeAfterLaps)
  /\ WF_pc(FinishSearch)

(***************************************************************************)
(* Properties of the engine.                                               *)
(***************************************************************************)
HasProfile(c) ==
  /\ c.input.tracksData # Null
  /\ c.input.trackName \in DOMAIN Get(c.input.tracksData)

ProfileOf(c) == Get(c.input.tracksData)[c.input.trackName]

RECURSIVE SumLaps(_)
SumLaps(stints) ==
  IF Len(stints) = 0 THEN 0 ELSE stints[1].laps + SumLaps(Tail(stints))

CompoundsOf(plan) == {plan.stints[i].compound : i \in DOMAIN plan.stints}

IsScenario(c) == HasProfile(c) /\ ProfileOf(c) = ScenarioProfile

C2_MinimumOverAllPairs ==
  \A i \in DOMAIN calls :
    (HasProfile(calls[i]) /\ calls[i].out.ok) =>
      LET track == ProfileOf(calls[i])
          partitions == generateCandidateStints(track.laps)
      IN  \A p \in DOMAIN partitions :
            \A compounds \in Range(assignCompounds(Len(partitions[p]))) :
              scorePlan(track, partitions[p], compounds).totalTimeSeconds
                >= calls[i].out.plan.totalTimeSeconds

\* C3: every stint of the returned plan has lapCount >= 1, for every
\* positive totalLaps (1, 2 and 3 included).
C3_EveryStintHasALap ==
  \A i \in DOMAIN calls :
    (HasProfile(calls[i]) /\ calls[i].out.ok) =>
      \A k \in DOMAIN calls[i].out.plan.stints :
        calls[i].out.plan.stints[k].laps >= 1

\* C4: without a profile table the call fails with the missing-input error,
\* with a table that has no entry for trackName it fails with the
\* unknown-track error; in both cases no plan is returned and no candidate
\* is scored, and the missing table is reported whatever trackName is.
C4_InputErrors ==
  \A i \in DOMAIN calls :
    /\ calls[i].input.tracksData = Null =>
          /\ ~calls[i].out.ok
          /\ calls[i].out.error = ErrTracksData
          /\ calls[i].out.plan = NoPlan
          /\ calls[i].out.nScored = 0
    /\ (calls[i].input.tracksData # Null /\ ~HasProfile(calls[i])) =>
          /\ ~calls[i].out.ok
          /\ calls[i].out.error = ErrUnknownTrack(calls[i].input.trackName)
          /\ calls[i].out.plan = NoPlan
          /\ calls[i].out.nScored = 0

C4_Witness ==
  \E i \in DOMAIN calls :
    /\ calls[i].input.tracksData = Null
    /\ calls[i].input.trackName = Baku
    /\ calls[i].out.error = ErrTracksData

\* C5: two calls with the same trackName and the same profile stored for it
\* return identical plans, whatever raceYear, driverName,
\* rainProbabilityPct and mode are in either call.
C5_DependsOnlyOnProfile ==
  \A i, j \in DOMAIN calls :
    (/\ HasProfile(calls[i]) /\ HasProfile(calls[j])
     /\ calls[i].input.trackName = calls[j].input.trackName
     /\ ProfileOf(calls[i]) = ProfileOf(calls[j])) =>
      /\ calls[i].out.ok /\ calls[j].out.ok
      /\ calls[i].out.plan = calls[j].out.plan

C5_Witness ==
  \E i, j \in DOMAIN calls :
    /\ HasProfile(calls[i]) /\ HasProfile(calls[j])
    /\ calls[i].input.trackName = calls[j].input.trackName
    /\ ProfileOf(calls[i]) = ProfileOf(calls[j])
    /\ calls[i].input.tracksData # calls[j].input.tracksData
    /\ calls[i].input.raceYear # calls[j].input.raceYear
    /\ calls[i].input.driverName # calls[j].input.driverName
    /\ calls[i].input.rainProbabilityPct # calls[j].input.rainProbabilityPct
    /\ calls[i].input.mode # calls[j].input.mode
    /\ calls[i].out.ok
    /\ calls[i].out.plan = calls[j].out.plan

\* C6 as stated: for the 58-lap profile the plan has 2 or 3 stops and its
\* compounds contain SOFT together with HARD or SOFT together with MEDIUM.
C6_ScenarioUsesSoft ==
  \A i \in DOMAIN calls :
    (IsScenario(calls[i]) /\ calls[i].out.ok) =>
      /\ calls[i].out.plan.numStops \in {2, 3}
      /\ "SOFT" \in CompoundsOf(calls[i].out.plan)
      /\ \/ "HARD" \in CompoundsOf(calls[i].out.plan)
         \/ "MEDIUM" \in CompoundsOf(calls[i].out.plan)

\* C6 amended: for the 58-lap profile the plan has 2 or 3 stops and its
\* compounds are MEDIUM together with HARD, without SOFT.
C6_ScenarioCompounds ==
  \A i \in DOMAIN calls :
    IsScenario(calls[i]) =>
      /\ calls[i].out.ok
      /\ calls[i].out.plan.numStops \in {2, 3}
      /\ CompoundsOf(calls[i].out.plan) = {"MEDIUM", "HARD"}

C6_Witness ==
  \E i \in DOMAIN calls :
    /\ IsScenario(calls[i])
    /\ calls[i].out.ok
    /\ calls[i].out.plan.numStops = 2

\* 58*92 s and 58*92 + 3*20 + 58*0.13 s, in milliseconds.
ScenarioLowerBound == 58 * 92000
ScenarioUpperBound == 58 * 92000 + 3 * 20000 + 58 * 130

\* C7 as stated: for the 58-lap profile the plan's total time is strictly
\* between 5336 s and 5403.54 s.
C7_ScenarioTotalBelowBound ==
  \A i \in DOMAIN calls :
    (IsScenario(calls[i]) /\ calls[i].out.ok) =>
      /\ calls[i].out.plan.totalTimeSeconds > ScenarioLowerBound
      /\ calls[i].out.plan.totalTimeSeconds < ScenarioUpperBound

\* C7 amended: for the 58-lap profile the plan's total time is strictly
\* greater than 5336 s and equals 5426.37 s, which is above 5403.54 s.
C7_ScenarioTotal ==
  \A i \in DOMAIN calls :
    IsScenario(calls[i]) =>
      /\ calls[i].out.ok
      /\ calls[i].out.plan.totalTimeSeconds > ScenarioLowerBound
      /\ calls[i].out.plan.totalTimeSeconds = 5426370
      /\ calls[i].out.plan.totalTimeSeconds > ScenarioUpperBound

C7_Witness ==
  \E i \in DOMAIN calls :
    /\ IsScenario(calls[i])
    /\ calls[i].out.ok
    /\ calls[i].out.plan.totalTimeSeconds > ScenarioUpperBound

(***************************************************************************)
(* Properties of the prediction request.                                   *)
(***************************************************************************)
\* C8: when a telemetry step of a request fails (listing sessions, listing
\* laps, or the calibration computed from them), the search is still run,
\* it is run with the static catalog unmodified, and the telemetry failure
\* is not reported as the request's error.
C8_TelemetryFailureSwallowed ==
  /\ (caught # Null /\ pc = "search") => tracksForRun = tracks
  /\ (caught # Null /\ pc = "idle") =>
        /\ searched # Null
        /\ Get(searched).tracksData = tracks
        /\ ~loading
        /\ result # Null \/ error # Null
        /\ error # Null => /\ Get(error) # Get(caught)
                           /\ Get(error) \notin TelemetryErrors

C8_Witness ==
  /\ pc = "idle"
  /\ caught = Some(ErrNotIterable)
  /\ lapsResp # Null
  /\ searched # Null
  /\ result # Null

\* C9: every started prediction request eventually finishes: loading
\* returns to false with a plan or a fatal error set, also when a telemetry
\* call never completes.
C9_RequestFinishes ==
  (pc # "idle") ~> (pc = "idle" /\ ~loading /\ (result # Null \/ error # Null))

(***************************************************************************)
(* Properties of the engine's internal functions.                          *)
(***************************************************************************)
StintTimeCalls ==
  {i \in DOMAIN helperCalls : helperCalls[i].fn = "computeStintTimeSeconds"}

\* C13: for a fixed positive baseLap, a fixed degPerLap >= 0 and the default
\* fuel penalty, computeStintTimeSeconds is strictly increasing in the lap
\* count: the time of n + 1 laps is greater than the time of n laps, n >= 1.
C13_StintTimeIncreasing ==
  \A i, j \in StintTimeCalls :
    LET a == helperCalls[i].args
        b == helperCalls[j].args
    IN  (/\ a.baseLap = b.baseLap /\ a.baseLap > 0
         /\ a.degPerLap = b.degPerLap /\ a.degPerLap >= 0
         /\ a.fuel = fuelPenaltyPerLap /\ b.fuel = fuelPenaltyPerLap
         /\ a.laps >= 1 /\ b.laps = a.laps + 1) =>
          helperCalls[j].out > helperCalls[i].out

C13_Witness ==
  \E i, j \in StintTimeCalls :
    /\ helperCalls[i].args = [baseLap |-> 1, degPerLap |-> 0, laps |-> 1,
                              fuel |-> fuelPenaltyPerLap]
    /\ helperCalls[j].args = [baseLap |-> 1, degPerLap |-> 0, laps |-> 2,
                              fuel |-> fuelPenaltyPerLap]
    /\ helperCalls[i].out = 1
    /\ helperCalls[j].out = 17

\* The time of laps i..n of an n-lap stint, lap i costing
\* base + i*deg + (n - i)*fuel.
RECURSIVE LapTimesFrom(_, _, _, _, _)
LapTimesFrom(i, n, base, deg, fuel) ==
  IF i > n THEN 0
  ELSE base + i * deg + (n - i) * fuel + LapTimesFrom(i + 1, n, base, deg, fuel)

\* C21: for every lap count n >= 1, computeStintTimeSeconds(base, deg, n,
\* fuel) equals the sum over laps i = 1..n of base + i*deg + (n - i)*fuel,
\* that is n*base + deg*n*(n+1)/2 + fuel*n*(n-1)/2, the fuel penalty being
\* 0.015 s when the fourth argument is left out.
C21_StintTimeIsLapSum ==
  /\ fuelPenaltyPerLap = 15
  /\ \A i \in StintTimeCalls :
       LET a == helperCalls[i].args
       IN  a.laps >= 1 =>
             /\ helperCalls[i].out =
                  LapTimesFrom(1, a.laps, a.baseLap, a.degPerLap, a.fuel)
             /\ 2 * helperCalls[i].out =
                  2 * a.laps * a.baseLap
                  + a.degPerLap * a.laps * (a.laps + 1)
                  + a.fuel * a.laps * (a.laps - 1)

C21_Witness ==
  \E i, j \in StintTimeCalls :
    /\ helperCalls[i].args = [baseLap |-> 92000, degPerLap |-> 130,
                              laps |-> 58, fuel |-> fuelPenaltyPerLap]
    /\ helperCalls[i].out = 5583225
    /\ helperCalls[j].args = [baseLap |-> 92000, degPerLap |-> 130,
                              laps |-> 3, fuel |-> 40]
    /\ helperCalls[j].out = 276900

CandidateCalls ==
  {i \in DOMAIN helperCalls : helperCalls[i].fn = "generateCandidateStints"}

\* C14: for every positive integer totalLaps, every sequence returned by
\* generateCandidateStints has between 1 and 4 entries, every entry is a
\* positive integer, the entries sum to totalLaps, and no two returned
\* sequences have the same ordered list of lap counts.
C14_CandidatesWellFormed ==
  \A i \in CandidateCalls :
    LET totalLaps == helperCalls[i].args
        out == helperCalls[i].out
    IN  totalLaps >= 1 =>
          /\ \A p \in DOMAIN out :
                /\ Len(out[p]) \in 1..4
                /\ \A k \in DOMAIN out[p] : out[p][k] >= 1
                /\ SumSeq(out[p]) = totalLaps
          /\ \A p, r \in DOMAIN out : out[p] = out[r] => p = r

AssignCalls ==
  {i \in DOMAIN helperCalls : helperCalls[i].fn = "assignCompounds"}

\* The sequences of k compounds that use at least two different compounds.
TwoCompoundSequences(k) ==
  {p \in [1..k -> {"SOFT", "MEDIUM", "HARD"}] : Cardinality(Range(p)) >= 2}

StopsOf(run) == Len(run.partitions[run.p]) - 1

\* C16: pruning acts only inside one partition's assignment loop.  A step
\* that stays in the partition scores exactly one assignment, and after it
\* the rest of the partition is skipped exactly when the partition's stop
\* count exceeds the stop count of best (as updated by that assignment) by
\* more than 1; without a break the next assignment of the partition is
\* scored; leaving a partition leads to the next one, never further, whose
\* loop starts at its first assignment with the full assignment list and
\* the same best; the search returns only after the last partition.
C16_PruneWithinPartition ==
  [][(search # Null /\ search' # search) =>
       LET a == Get(search)
           b == Get(search')
       IN  /\ (b.p = a.p /\ b.returned = Null) =>
                 /\ b.k = a.k + 1
                 /\ b.best # Null
                 /\ b.broken <=> (StopsOf(a) > Get(b.best).numStops + 1)
           /\ (a.broken /\ b.returned = Null) => b.p = a.p + 1
           /\ (~a.broken /\ a.k <= Len(a.sortedCompounds)) =>
                 (b.p = a.p /\ b.returned = Null)
           /\ b.p # a.p =>
                 /\ b.p = a.p + 1
                 /\ b.k = 1
                 /\ ~b.broken
                 /\ b.best = a.best
                 /\ b.sortedCompounds = assignCompounds(Len(b.partitions[b.p]))
           /\ b.returned # Null => a.p = Len(a.partitions)
    ]_vars

C16_Witness ==
  /\ search # Null
  /\ Get(search).broken
  /\ Get(search).k <= Len(Get(search).sortedCompounds)
  /\ Get(search).p < Len(Get(search).partitions)
  /\ StopsOf(Get(search)) = 3
  /\ Get(Get(search).best).numStops = 1

CompoundRank(c) == CASE c = "SOFT" -> 1 [] c = "MEDIUM" -> 2 [] c = "HARD" -> 3

\* x comes before y when, at the first position where they differ, x has
\* the earlier compound (the smaller lap count).
CompoundsBefore(x, y) ==
  \E i \in DOMAIN x :
    /\ i \in DOMAIN y
    /\ CompoundRank(x[i]) < CompoundRank(y[i])
    /\ \A j \in 1..(i - 1) : x[j] = y[j]

LapsBefore(x, y) ==
  \E i \in DOMAIN x :
    /\ i \in DOMAIN y
    /\ x[i] < y[i]
    /\ \A j \in 1..(i - 1) : x[j] = y[j]

\* Generation order: the 2-stint partitions, the 3-stint ones, the 4-stint
\* one and the 1-stint one; partitions of equal length by ascending offsets.
PartitionBefore(x, y) ==
  LET group(q) == IF Len(q) = 1 THEN 5 ELSE Len(q)
  IN  \/ group(x) < group(y)
      \/ group(x) = group(y) /\ LapsBefore(x, y)

LapsOf(plan) == [i \in DOMAIN plan.stints |-> plan.stints[i].laps]
CompoundSeqOf(plan) == [i \in DOMAIN plan.stints |-> plan.stints[i].compound]

\* The order is total and transitive: a list is in this order when each
\* element comes before the next one.
ScoredBefore(x, y) ==
  \/ PartitionBefore(LapsOf(x), LapsOf(y))
  \/ /\ LapsOf(x) = LapsOf(y)
     /\ CompoundsBefore(CompoundSeqOf(x), CompoundSeqOf(y))

\* C17: best is replaced only by a plan of strictly smaller total time, so
\* the returned plan is the first scored among the scored plans of minimal
\* total time; plans are scored partition by partition in generation order
\* (2-stint by ascending offset, 3-stint by ascending offset pair, then the
\* 4-stint split) and within a partition in enumeration order, SOFT before
\* MEDIUM before HARD position by position, the sort changing nothing.
C17_FirstMinimumWins ==
  /\ [][(search # Null /\ Get(search').best # Get(search).best) =>
          \/ Get(search).best = Null
          \/ Get(Get(search').best).totalTimeSeconds
               < Get(Get(search).best).totalTimeSeconds]_vars
  /\ [](search # Null =>
          LET run == Get(search)
          IN  /\ \A i \in 1..(Len(run.scored) - 1) :
                    ScoredBefore(run.scored[i], run.scored[i + 1])
              /\ \A i \in 1..(Len(run.partitions) - 1) :
                    PartitionBefore(run.partitions[i], run.partitions[i + 1])
              /\ run.sortedCompounds =
                   assignCompounds(Len(run.partitions[run.p]))
              /\ (run.returned # Null /\ Get(run.returned).ok) =>
                    \E i \in DOMAIN run.scored :
                      /\ run.scored[i] = Get(run.returned).plan
                      /\ \A j \in DOMAIN run.scored :
                            /\ run.scored[j].totalTimeSeconds
                                 >= run.scored[i].totalTimeSeconds
                            /\ j < i => run.scored[j].totalTimeSeconds
                                          > run.scored[i].totalTimeSeconds)

\* A returned plan that a later scored plan ties with.
C17_Witness ==
  /\ search # Null
  /\ Get(search).returned # Null
  /\ \E i, j \in DOMAIN Get(search).scored :
        /\ i < j
        /\ Get(search).scored[i] = Get(Get(search).returned).plan
        /\ Get(search).scored[j].totalTimeSeconds
             = Get(search).scored[i].totalTimeSeconds
        /\ LapsOf(Get(search).scored[j]) # LapsOf(Get(search).scored[i])

\* The partitions of the run that have n stints, and the plans scored so
\* far that have n stints.
PartitionsOf(run, n) ==
  {q \in DOMAIN run.partitions : Len(run.partitions[q]) = n}

ScoredOf(run, n) == {i \in DOMAIN run.scored : Len(run.scored[i].stints) = n}

\* C23: no compound assignment of a 2-stint or 3-stint candidate is skipped
\* by pruning.  The inner loop is left by `break` only while the single
\* 4-stint candidate is scored and best (as updated) has exactly 1 stop; the
\* 2-stint and 3-stint candidates are scored before the 4-stint one, and once
\* the search is past them each has had all its 6, respectively 24,
\* assignments scored.
C23_PruneOnlyFourStints ==
  search # Null =>
    LET run == Get(search)
    IN  /\ Cardinality(PartitionsOf(run, 4)) = 1
        /\ \A q \in PartitionsOf(run, 2) \cup PartitionsOf(run, 3) :
             \A r \in PartitionsOf(run, 4) : q < r
        /\ run.broken =>
             /\ Len(run.partitions[run.p]) = 4
             /\ run.best # Null
             /\ Get(run.best).numStops = 1
        /\ Len(run.partitions[run.p]) \in {1, 4} =>
             /\ Cardinality(ScoredOf(run, 2))
                  = 6 * Cardinality(PartitionsOf(run, 2))
             /\ Cardinality(ScoredOf(run, 3))
                  = 24 * Cardinality(PartitionsOf(run, 3))

\* The 4-stint candidate is left after its first assignment, every 2-stint
\* and 3-stint assignment having been scored.
C23_Witness ==
  /\ search # Null
  /\ Get(search).broken
  /\ Len(Get(search).partitions[Get(search).p]) = 4
  /\ Get(search).k = 2
  /\ Cardinality(ScoredOf(Get(search), 2)) >= 6
  /\ Cardinality(ScoredOf(Get(search), 3)) >= 24

(***************************************************************************)
(* Properties of the inference functions.                                  *)
(***************************************************************************)
PitLossCall == inferred # Null /\ Get(inferred).fn = "inferPitLossFromLaps"

\* The laps of a list whose duration is present and strictly between 30 s
\* and 200 s.
CountedLaps(items) ==
  {i \in DOMAIN items :
     /\ items[i].hasDuration
     /\ items[i].duration > 30000
     /\ items[i].duration < 200000}

ClampTo(lo, hi, x) == IF x < lo THEN lo ELSE IF x > hi THEN hi ELSE x

\* C11: inferPitLossFromLaps returns no estimate exactly when fewer than 10
\* lap durations lie strictly between 30 s and 200 s (durations equal to 30
\* or 200, or missing, are not counted); otherwise it returns max - median of
\* those durations clamped to [15, 30], the median being the element at index
\* floor(n/2) of the ascending sort, so every estimate lies in [15, 30].
C11_PitLossEstimate ==
  PitLossCall =>
    LET items == Get(inferred).body.items
        out == Get(inferred).out
        counted == CountedLaps(items)
        n == Cardinality(counted)
        below(v) == Cardinality({i \in counted : items[i].duration < v})
        upTo(v) == Cardinality({i \in counted : items[i].duration <= v})
    IN  /\ (out = Null) <=> (n < 10)
        /\ out # Null =>
              /\ Get(out) \in 15000..30000
              /\ \E mx, md \in {items[i].duration : i \in counted} :
                    /\ upTo(mx) = n
                    /\ below(md) <= n \div 2
                    /\ n \div 2 < upTo(md)
                    /\ Get(out) = ClampTo(15000, 30000, mx - md)

C11_Witness ==
  /\ PitLossCall
  /\ Cardinality(CountedLaps(Get(inferred).body.items)) = 10
  /\ Len(Get(inferred).body.items) = 13
  /\ Get(inferred).out = Some(20000)

DegradationCall ==
  /\ inferred # Null
  /\ Get(inferred).fn = "inferDegradationFromLaps"
  /\ Get(inferred).body.isArray

\* The laps of one compound: label t after upper-casing, duration present.
GroupOf(items, t) ==
  SelectSeq(items, LAMBDA l : /\ l.tyre # ""
                              /\ toUpperCase(l.tyre) = t
                              /\ l.hasDuration)

\* n * Sxy and n * Sxx of a group: the numerator and the denominator of the
\* least-squares slope of duration against lap number, both times n.
SlopeNum(g) ==
  Len(g) * SumSeq([i \in DOMAIN g |-> g[i].lap_number * g[i].duration])
  - SumSeq([i \in DOMAIN g |-> g[i].lap_number])
    * SumSeq([i \in DOMAIN g |-> g[i].duration])

SlopeDen(g) ==
  Len(g) * SumSeq([i \in DOMAIN g |-> g[i].lap_number * g[i].lap_number])
  - SumSeq([i \in DOMAIN g |-> g[i].lap_number])
    * SumSeq([i \in DOMAIN g |-> g[i].lap_number])

Estimated(items, t) ==
  Len(GroupOf(items, t)) >= 12 /\ SlopeDen(GroupOf(items, t)) # 0

LabelsOf(items) ==
  {toUpperCase(items[i].tyre) : i \in {j \in DOMAIN items : items[j].tyre # ""}}

\* C12: inferDegradationFromLaps yields an estimate for a compound exactly
\* when the compound's group (laps grouped by upper-cased label, laps lacking
\* a compound or a duration discarded) has at least 12 points and a non-zero
\* sum of squared lap-number deviations, each compound being decided from its
\* own group alone; a returned value is the least-squares slope of duration
\* against lap number (in whole ms per lap) clamped to [0.03, 0.25] s per
\* lap, a negative slope giving 0.03; no estimate at all is returned exactly
\* when no compound yields one.
C12_DegradationEstimate ==
  DegradationCall =>
    LET items == Get(inferred).body.items
        out == Get(inferred).out
        yielding == {t \in LabelsOf(items) : Estimated(items, t)}
    IN  /\ ~out.threw
        /\ (out.value = Null) <=> (yielding = {})
        /\ out.value # Null =>
              /\ DOMAIN Get(out.value) = yielding
              /\ \A t \in yielding :
                    LET g == GroupOf(items, t)
                        v == Get(out.value)[t]
                    IN  /\ v \in 30..250
                        /\ \E slope \in -1000..3000 :
                              /\ slope * SlopeDen(g) <= SlopeNum(g)
                              /\ SlopeNum(g) < (slope + 1) * SlopeDen(g)
                              /\ v = ClampTo(30, 250, slope)

C12_Witness ==
  /\ DegradationCall
  /\ Get(inferred).body.items =
        TyreLaps("soft", 6, 1, 90000, 100) \o TyreLaps("SOFT", 6, 7, 90600, 100)
        \o TyreLaps("HARD", 11, 13, 90000, 65)
  /\ Get(inferred).out.value = Some([SOFT |-> 100])

(***************************************************************************)
(* Properties of the calibrated profile.                                   *)
(***************************************************************************)
\* The request has run its search after a session was found and its laps
\* were received and processed without failure.
SessionResolved ==
  /\ pc = "idle"
  /\ searched # Null
  /\ caught = Null
  /\ race # Null
  /\ lapsResp # Null

LapsBody == Get(lapsResp).body
InferredPit == inferPitLossFromLaps(LapsBody)
InferredDeg == inferDegradationFromLaps(LapsBody).value
ProfileSearched == Get(Get(searched).tracksData)[req.trackName]

\* C18: when the catalog has an entry for the requested track and a
\* telemetry session resolves, the profile passed to the search is the
\* catalog entry with the pit loss replaced by the calibrated one if one was
\* inferred and each compound's degradation rate replaced by its calibrated
\* slope if one was inferred for it; a compound without a slope keeps its
\* catalog rate, totalLaps and baseLapTimeSeconds are the catalog values.
C18_KnownTrackRefined ==
  (SessionResolved /\ req.trackName \in DOMAIN Get(tracks)) =>
    LET entry == Get(tracks)[req.trackName]
        used == ProfileSearched
    IN  /\ used.laps = entry.laps
        /\ used.base_lap_time_seconds = entry.base_lap_time_seconds
        /\ used.pit_loss_seconds =
             IF InferredPit # Null THEN Get(InferredPit)
             ELSE entry.pit_loss_seconds
        /\ DOMAIN used.degradation_per_lap_seconds = {"SOFT", "MEDIUM", "HARD"}
        /\ \A c \in {"SOFT", "MEDIUM", "HARD"} :
              used.degradation_per_lap_seconds[c] =
                IF InferredDeg # Null /\ c \in DOMAIN Get(InferredDeg)
                THEN Get(InferredDeg)[c]
                ELSE entry.degradation_per_lap_seconds[c]

C18_Witness ==
  /\ SessionResolved
  /\ req.trackName = Monza
  /\ Get(tracks)[Monza] = MonzaProfile
  /\ ProfileSearched =
       [MonzaProfile EXCEPT
          !.pit_loss_seconds = 15000,
          !.degradation_per_lap_seconds =
             [SOFT |-> 100, MEDIUM |-> 90, HARD |-> 65]]

CatalogNames == DOMAIN Get(tracks)

\* The average of baseLapTimeSeconds over the catalog entries.
RECURSIVE SumOfBase(_)
SumOfBase(names) ==
  IF names = {} THEN 0
  ELSE LET n == CHOOSE x \in names : TRUE
       IN  Get(tracks)[n].base_lap_time_seconds + SumOfBase(names \ {n})

CatalogAverageBase == SumOfBase(CatalogNames) \div Cardinality(CatalogNames)

\* C19: when the catalog has no entry for the requested track and a session
\* resolves, the synthesized profile's baseLapTimeSeconds is the
\* 20th-percentile value of the lap durations strictly between 30 s and
\* 200 s (the value of rank floor(0.2 * n) among the n of them), and when no
\* duration qualifies it is the average of baseLapTimeSeconds over all
\* catalog entries.
C19_SynthesizedBaseLap ==
  (SessionResolved /\ req.trackName \notin CatalogNames) =>
    LET items == LapsBody.items
        counted == CountedLaps(items)
        n == Cardinality(counted)
        below(v) == Cardinality({i \in counted : items[i].duration < v})
        upTo(v) == Cardinality({i \in counted : items[i].duration <= v})
        base == ProfileSearched.base_lap_time_seconds
    IN  IF n > 0
        THEN /\ base \in {items[i].duration : i \in counted}
             /\ below(base) <= (2 * n) \div 10
             /\ (2 * n) \div 10 < upTo(base)
        ELSE base = CatalogAverageBase

ObservedLapNumbers ==
  {LapsBody.items[i].lap_number : i \in DOMAIN LapsBody.items} \ {0}

\* C20: when the catalog has no entry for the requested track and a session
\* resolves, the synthesized profile's totalLaps is the maximum lap number
\* observed across the session's laps, it is 50 whenever no lap number is
\* observed (empty lap list, or laps all lacking a lap number), and so it is
\* always a positive integer.
C20_SynthesizedTotalLaps ==
  (SessionResolved /\ req.trackName \notin CatalogNames) =>
    /\ ProfileSearched.laps =
         IF ObservedLapNumbers = {} THEN 50
         ELSE CHOOSE m \in ObservedLapNumbers :
                \A x \in ObservedLapNumbers : x <= m
    /\ ProfileSearched.laps > 0

(***************************************************************************)
(* Properties of repeated requests.                                        *)
(***************************************************************************)
\* The request just finished had no telemetry: the lookup failed, or no
\* session with a key matched.
WithoutTelemetry ==
  \/ caught # Null
  \/ race = Null
  \/ Get(race).session_key = 0

TableOf(i) == Get(calls[i].input.tracksData)

\* C22: after any sequence of prediction requests, each with any telemetry
\* outcome, the static catalog is the value it was loaded with, every request
\* starts from the catalog, the table a request searches differs from the
\* catalog at most in the entry of the track it asks for, and a request with
\* no telemetry searches exactly the catalog, whatever the requests before it
\* calibrated or synthesized.
C22_CatalogNeverShared ==
  /\ [][tracks # Null => tracks' = tracks]_vars
  /\ [][(pc = "idle" /\ pc' # "idle") => tracksForRun' = tracks']_vars
  /\ [](\A i \in DOMAIN calls :
          /\ tracks # Null
          /\ DOMAIN TableOf(i) \subseteq
               CatalogNames \cup {calls[i].input.trackName}
          /\ \A n \in CatalogNames \ {calls[i].input.trackName} :
               TableOf(i)[n] = Get(tracks)[n])
  /\ []((pc = "idle" /\ searched # Null /\ WithoutTelemetry) =>
          /\ calls[Len(calls)].input = Get(searched)
          /\ Get(searched).tracksData = tracks)

\* A request that calibrated or synthesized a profile is followed by a
\* request without telemetry, which searches the catalog.
C22_Witness ==
  /\ pc = "idle"
  /\ Len(calls) = 2
  /\ calls[1].input.tracksData # tracks
  /\ WithoutTelemetry
  /\ calls[2].input.tracksData = tracks
  /\ calls[2].input.trackName = calls[1].input.trackName

(***************************************************************************)
(* Properties of formatSeconds.                                            *)
(***************************************************************************)
IsDigit(ch) == \E d \in 0..9 : DigitChars[d + 1] = ch

\* The clock text read back: [minutes, seconds, millis], or null when the
\* text is not of the form M:SS.mmm with M a decimal numeral.
readClock(text) ==
  LET n == Len(text)
  IN  IF /\ n >= 8
         /\ text[n - 3] = "."
         /\ text[n - 6] = ":"
         /\ \A i \in (1..n) \ {n - 3, n - 6} : IsDigit(text[i])
         /\ (n - 7 > 1 => text[1] # "0")
      THEN Some([minutes |-> Number(SubSeq(text, 1, n - 7)),
                 seconds |-> Number(SubSeq(text, n - 5, n - 4)),
                 millis |-> Number(SubSeq(text, n - 2, n))])
      ELSE Null

\* C10: for every non-negative totalSeconds formatSeconds returns
\* "M:SS.mmm" with M the whole minutes (unbounded), SS the whole seconds
\* within the minute (0..59, 2 digits) and mmm the whole milliseconds
\* within the second (0..999, 3 digits), each truncated and never rounded;
\* 125.4567 gives "2:05.456", 59.999 gives "0:59.999" and 3600.0 gives
\* "60:00.000".
C10_ClockFormat ==
  clock # Null =>
    LET t == Get(clock).totalSeconds
        read == readClock(Get(clock).text)
    IN  /\ read # Null
        /\ Get(read).seconds \in 0..59
        /\ Get(read).millis \in 0..999
        /\ (Get(read).minutes * 60 + Get(read).seconds) * 1000
             + Get(read).millis = t \div (TicksPerSecond \div 1000)
        /\ t = 1254567 =>
             Get(clock).text = <<"2", ":", "0", "5", ".", "4", "5", "6">>
        /\ t = 599990 =>
             Get(clock).text = <<"0", ":", "5", "9", ".", "9", "9", "9">>
        /\ t = 36000000 =>
             Get(clock).text = <<"6", "0", ":", "0", "0", ".", "0", "0", "0">>

C10_Witness ==
  /\ clock # Null
  /\ Get(clock).totalSeconds = 36599999
  /\ Get(clock).text = <<"6", "0", ":", "5", "9", ".", "9", "9", "9">>
====
